---------------------------- MODULE Spec2Model ----------------------------
(***************************************************************************)
(* Model of birthday_greetings/src/model.rs: the validated value types     *)
(* (NonEmptyString, Email, BirthDate), the two EnvelopeDispatcher          *)
(* implementations (SlackService, EmailService) and one pass of            *)
(* BirthdayService::send_greetings::<E, Result<Vec<()>, String>>.          *)
(***************************************************************************)
EXTENDS Integers, Sequences, FiniteSets, TLC

VARIABLES
    pc,          \* position inside send_greetings: "idle", "prepare", "send", "done"
    dispatcher,  \* the type parameter E chosen at the call site
    repo,        \* what EmployeeRepository::get_employees returns
    roster,      \* the Vec<Employee> being iterated (empty until fetched)
    idx,         \* 1-based position of the iterator over the roster
    inflight,    \* the E::Repr<Envelope> handed from prepare to send
    acc,         \* the Vec<()> that collect() has accumulated so far
    calls,       \* log of the calls made on the collaborators, in order
    result,      \* the value R returned by send_greetings
    dcall,       \* a direct call of a dispatcher's prepare / send
    vcall        \* a direct call of a validated value constructor

vars == <<pc, dispatcher, repo, roster, idx, inflight, acc, calls, result, dcall, vcall>>

passVars == <<pc, dispatcher, repo, roster, idx, inflight, acc, calls, result>>

(***************************************************************************)
(* Bounds of the model.                                                    *)
(***************************************************************************)
MaxStrLen == 2

MaxRoster == 3

MaxOrdinal == 3

(***************************************************************************)
(* Result<T, E> and Option<T>.                                             *)
(***************************************************************************)
Ok(v) == [tag |-> "Ok", val |-> v]

Err(e) == [tag |-> "Err", err |-> e]

Some(v) == [tag |-> "Some", val |-> v]

None == [tag |-> "None"]

Unit == <<>>

(***************************************************************************)
(* Strings are sequences of characters.                                    *)
(***************************************************************************)
Alphabet == {"a", "b", " "}

Strings == UNION {[1..n -> Alphabet] : n \in 0..MaxStrLen}

HappyBirthday == <<"H", "a", "p", "p", "y", " ", "b", "i", "r", "t", "h", "d", "a", "y">>

(***************************************************************************)
(* NonEmptyString::new                                                     *)
(***************************************************************************)
\* Variant of NonEmptyString::new that tests input.trim() instead of input.
NonEmptyStringNew_Trimmed(input) ==
    IF \A k \in 1..Len(input) : input[k] = " "
    THEN Err([kind |-> "EmptyName", msg |-> "specified string is invalid"])
    ELSE Ok([inner |-> input])

NonEmptyStringNew(input) ==
    IF Len(input) = 0
    THEN Err([kind |-> "EmptyName", msg |-> "specified string is invalid"])
    ELSE Ok([inner |-> input])

(***************************************************************************)
(* Email::new                                                              *)
(***************************************************************************)
EmailNew(input) ==
    IF Len(input) = 0
    THEN Err([kind |-> "InvalidFormat", msg |-> "specified email is invalid"])
    ELSE Ok([inner |-> input])

(***************************************************************************)
(* NaiveDate, ordered by year and then by day of the year.                 *)
(***************************************************************************)
Years == {2013, 2014, 2015}

Dates == [year : Years, ordinal : 1..MaxOrdinal]

DateGT(a, b) ==
    \/ a.year > b.year
    \/ a.year = b.year /\ a.ordinal > b.ordinal

(***************************************************************************)
(* BirthDate::new; now is Utc::now().naive_utc().date() read by the call.  *)
(***************************************************************************)
\* Variant of BirthDate::new that compares with >= instead of > .
BirthDateNew_RejectToday(input, now) ==
    IF DateGT(input, now) \/ input = now
    THEN Err([kind |-> "InvalidFormat", msg |-> "date cannot be in the future"])
    ELSE Ok([inner |-> input])

BirthDateNew(input, now) ==
    IF DateGT(input, now)
    THEN Err([kind |-> "InvalidFormat", msg |-> "date cannot be in the future"])
    ELSE Ok([inner |-> input])

(***************************************************************************)
(* Address, FullName, Employee, Message, Envelope.                         *)
(***************************************************************************)
AddressEmail(e) == [variant |-> "Email", value |-> e]

AddressSlack(s) == [variant |-> "Slack", value |-> s]

Emails == {EmailNew(s).val : s \in {t \in Strings : EmailNew(t).tag = "Ok"}}

Names == {NonEmptyStringNew(s).val : s \in {t \in Strings : NonEmptyStringNew(t).tag = "Ok"}}

Addresses == {AddressEmail(e) : e \in Emails} \cup {AddressSlack(s) : s \in Strings}

FullNames == {[first_name |-> [inner |-> <<"a">>], last_name |-> n] : n \in {m \in Names : Len(m.inner) = 1}}

BirthDates == {[inner |-> d] : d \in {x \in Dates : x.year = 2014 /\ x.ordinal <= 2}}

Employees == [name : FullNames, address : Addresses, birth_date : BirthDates]

Message(subject, body) == [subject |-> subject, body |-> body]

Envelope(to, message) == [to |-> to, message |-> message]

(***************************************************************************)
(* SlackService: Repr<T> = Result<T, String>.                              *)
(***************************************************************************)
\* Variant of SlackService::prepare that refuses a non-Slack address.
SlackPrepare_ChecksChannel(e) ==
    IF e.address.variant = "Slack"
    THEN Ok(Envelope(e.address,
                     Message(NonEmptyStringNew(HappyBirthday).val,
                             NonEmptyStringNew(HappyBirthday).val)))
    ELSE Err("wrong channel")

SlackPrepare(e) ==
    Ok(Envelope(e.address,
                Message(NonEmptyStringNew(HappyBirthday).val,
                        NonEmptyStringNew(HappyBirthday).val)))

SlackSend(msg) ==
    IF msg.tag = "Err" THEN Err(msg.err) ELSE Ok(Unit)

(***************************************************************************)
(* EmailService: Repr<T> = Option<T>.                                      *)
(***************************************************************************)
EmailPrepare(e) ==
    Some(Envelope(e.address,
                  Message(NonEmptyStringNew(HappyBirthday).val,
                          NonEmptyStringNew(HappyBirthday).val)))

EmailSend(msg) ==
    IF msg.tag = "None" THEN None ELSE Some(Unit)


(***************************************************************************)
(* The dispatchers send_greetings can be instantiated with when R is       *)
(* Result<Vec<()>, String>: SlackService and the tests' MockSlackService,  *)
(* whose prepare and send return whatever their expectations return.       *)
(***************************************************************************)
PassDispatchers == {"SlackService", "MockSlackService"}

MockEnvelope ==
    Envelope(AddressSlack(<<"a">>), Message([inner |-> <<"a">>], [inner |-> <<"a">>]))

MockPrepareReturns == {Ok(MockEnvelope), Err("prepare failed")}

MockSendReturns == {Ok(Unit), Err("unreachable")}

PrepareReturns(E, e) ==
    IF E = "SlackService" THEN {SlackPrepare(e)} ELSE MockPrepareReturns

SendReturns(E, msg) ==
    IF E = "SlackService" THEN {SlackSend(msg)} ELSE MockSendReturns

(***************************************************************************)
(* What the EmployeeRepository of a pass may return.                       *)
(***************************************************************************)
PassEmployees ==
    {e \in Employees :
        /\ e.name.last_name.inner = <<"a">>
        /\ e.birth_date.inner.ordinal = 1
        /\ e.address \in {AddressEmail([inner |-> <<"a">>]), AddressSlack(<<"a">>), AddressSlack(<<>>)}}

Rosters == UNION {[1..n -> PassEmployees] : n \in 0..MaxRoster}

RepoReturns == {Ok(r) : r \in Rosters} \cup {Err("repository unavailable")}

Call(op, i, tag) == [op |-> op, idx |-> i, tag |-> tag]

NoValue == [tag |-> "NoValue"]

(***************************************************************************)
(* BirthdayService::send_greetings, entry: get_employees()? .              *)
(***************************************************************************)
\* Variant of the entry that uses get_employees().unwrap_or_default().
SendGreetings_DefaultOnFetchError ==
    /\ pc = "idle"
    /\ calls' = Append(calls, Call("get_employees", 0, repo.tag))
    /\ roster' = IF repo.tag = "Err" THEN <<>> ELSE repo.val
    /\ idx' = 1
    /\ pc' = "prepare"
    /\ UNCHANGED <<dispatcher, repo, inflight, acc, result, dcall, vcall>>

SendGreetings ==
    /\ pc = "idle"
    /\ calls' = Append(calls, Call("get_employees", 0, repo.tag))
    /\ IF repo.tag = "Err"
       THEN /\ result' = Err(repo.err)
            /\ pc' = "done"
            /\ UNCHANGED <<roster, idx>>
       ELSE /\ roster' = repo.val
            /\ idx' = 1
            /\ pc' = "prepare"
            /\ UNCHANGED result
    /\ UNCHANGED <<dispatcher, repo, inflight, acc, dcall, vcall>>

(***************************************************************************)
(* The map closure, first half: E::prepare(e) for the next employee.       *)
(***************************************************************************)
\* Variant of the closure that fetches the roster again for every employee.
Prepare_Refetch ==
    /\ pc = "prepare"
    /\ idx <= Len(roster)
    /\ \E r \in PrepareReturns(dispatcher, roster[idx]) :
          /\ inflight' = r
          /\ calls' = calls \o <<Call("get_employees", 0, repo.tag), Call("prepare", idx, r.tag)>>
    /\ pc' = "send"
    /\ UNCHANGED <<dispatcher, repo, roster, idx, acc, result, dcall, vcall>>

Prepare ==
    /\ pc = "prepare"
    /\ idx <= Len(roster)
    /\ \E r \in PrepareReturns(dispatcher, roster[idx]) :
          /\ inflight' = r
          /\ calls' = Append(calls, Call("prepare", idx, r.tag))
    /\ pc' = "send"
    /\ UNCHANGED <<dispatcher, repo, roster, idx, acc, result, dcall, vcall>>

(***************************************************************************)
(* The map closure, second half: E::send(..), and collect()'s handling of  *)
(* the item: Result<Vec<()>, String> stops at the first Err.               *)
(***************************************************************************)
\* Variant of the iteration that steps over the employee after a success.
Send_SkipsNext ==
    /\ pc = "send"
    /\ inflight' = NoValue
    /\ \E r \in SendReturns(dispatcher, inflight) :
          /\ calls' = Append(calls, Call("send", idx, r.tag))
          /\ IF r.tag = "Err"
             THEN /\ result' = Err(r.err)
                  /\ pc' = "done"
                  /\ UNCHANGED <<idx, acc>>
             ELSE /\ acc' = Append(acc, r.val)
                  /\ idx' = idx + 2
                  /\ pc' = "prepare"
                  /\ UNCHANGED result
    /\ UNCHANGED <<dispatcher, repo, roster, dcall, vcall>>

Send ==
    /\ pc = "send"
    /\ inflight' = NoValue
    /\ \E r \in SendReturns(dispatcher, inflight) :
          /\ calls' = Append(calls, Call("send", idx, r.tag))
          /\ IF r.tag = "Err"
             THEN /\ result' = Err(r.err)
                  /\ pc' = "done"
                  /\ UNCHANGED <<idx, acc>>
             ELSE /\ acc' = Append(acc, r.val)
                  /\ idx' = idx + 1
                  /\ pc' = "prepare"
                  /\ UNCHANGED result
    /\ UNCHANGED <<dispatcher, repo, roster, dcall, vcall>>

(***************************************************************************)
(* collect() when the iterator is exhausted.                               *)
(***************************************************************************)
Collect ==
    /\ pc = "prepare"
    /\ idx > Len(roster)
    /\ result' = Ok(acc)
    /\ pc' = "done"
    /\ UNCHANGED <<dispatcher, repo, roster, idx, inflight, acc, calls, dcall, vcall>>

NoDirectCall == [stage |-> "none"]

PassIdle ==
    /\ pc = "idle"
    /\ roster = <<>>
    /\ idx = 0
    /\ inflight = NoValue
    /\ acc = <<>>
    /\ calls = <<>>
    /\ result = NoValue

Init ==
    /\ PassIdle
    /\ dispatcher \in PassDispatchers
    /\ repo \in RepoReturns
    /\ dcall = NoDirectCall
    /\ vcall = NoDirectCall

Next == SendGreetings \/ Prepare \/ Send \/ Collect

Spec == Init /\ [][Next]_vars

(***************************************************************************)
(* Direct calls of the two dispatchers of the crate.                       *)
(***************************************************************************)
Services == {"SlackService", "EmailService"}

ServicePrepare(svc, e) ==
    IF svc = "SlackService" THEN SlackPrepare(e) ELSE EmailPrepare(e)

ServiceSend(svc, msg) ==
    IF svc = "SlackService" THEN SlackSend(msg) ELSE EmailSend(msg)

FailedRepr(svc) ==
    IF svc = "SlackService" THEN Err("prepare failed") ELSE None

DirectPrepare ==
    /\ dcall.stage = "init"
    /\ dcall' = [dcall EXCEPT !.stage = "prepared",
                              !.msg = ServicePrepare(dcall.svc, dcall.employee)]
    /\ UNCHANGED <<passVars, vcall>>

DirectSend ==
    /\ dcall.stage = "prepared"
    /\ \E m \in {dcall.msg, FailedRepr(dcall.svc)} :
          dcall' = [dcall EXCEPT !.stage = "sent",
                                !.msg = m,
                                !.ret = ServiceSend(dcall.svc, m)]
    /\ UNCHANGED <<passVars, vcall>>

InitDispatcher ==
    /\ PassIdle
    /\ dispatcher = "SlackService"
    /\ repo = Ok(<<>>)
    /\ vcall = NoDirectCall
    /\ \E svc \in Services, e \in Employees :
          dcall = [stage |-> "init", svc |-> svc, employee |-> e,
                   msg |-> NoValue, ret |-> NoValue]

NextDispatcher == DirectPrepare \/ DirectSend

SpecDispatcher == InitDispatcher /\ [][NextDispatcher]_vars

(***************************************************************************)
(* Direct calls of the validated value constructors.                       *)
(***************************************************************************)
CallNonEmptyStringNew ==
    /\ vcall.stage = "init"
    /\ vcall.fn = "NonEmptyString::new"
    /\ vcall' = [vcall EXCEPT !.stage = "returned", !.ret = NonEmptyStringNew(vcall.arg)]
    /\ UNCHANGED <<passVars, dcall>>

CallEmailNew ==
    /\ vcall.stage = "init"
    /\ vcall.fn = "Email::new"
    /\ vcall' = [vcall EXCEPT !.stage = "returned", !.ret = EmailNew(vcall.arg)]
    /\ UNCHANGED <<passVars, dcall>>

CallBirthDateNew ==
    /\ vcall.stage = "init"
    /\ vcall.fn = "BirthDate::new"
    /\ vcall' = [vcall EXCEPT !.stage = "returned", !.ret = BirthDateNew(vcall.arg, vcall.now)]
    /\ UNCHANGED <<passVars, dcall>>

InitValue ==
    /\ PassIdle
    /\ dispatcher = "SlackService"
    /\ repo = Ok(<<>>)
    /\ dcall = NoDirectCall
    /\ \/ \E fn \in {"NonEmptyString::new", "Email::new"}, s \in Strings :
             vcall = [stage |-> "init", fn |-> fn, arg |-> s, ret |-> NoValue]
       \/ \E d \in Dates, now \in Dates :
             vcall = [stage |-> "init", fn |-> "BirthDate::new", arg |-> d, now |-> now,
                      ret |-> NoValue]

NextValue == CallNonEmptyStringNew \/ CallEmailNew \/ CallBirthDateNew

SpecValue == InitValue /\ [][NextValue]_vars

(***************************************************************************)
(* Properties of one pass of send_greetings.                               *)
(***************************************************************************)
Called(op, i) == \E k \in DOMAIN calls : calls[k].op = op /\ calls[k].idx = i

CountCalls(op) == Cardinality({k \in DOMAIN calls : calls[k].op = op})

DispatchFailed(k) == calls[k].op \in {"prepare", "send"} /\ calls[k].tag = "Err"

NoDispatchFailed == \A k \in DOMAIN calls : ~DispatchFailed(k)

\* C1: in a finished pass over a fetched roster, a failure returned by
\* prepare or send for employee i never prevents dispatch of the later
\* employees: prepare and send are invoked for every employee j > i.
C1_FailureNeverPreventsLaterDispatch ==
    (pc = "done" /\ repo.tag = "Ok") =>
        \A k \in DOMAIN calls :
            DispatchFailed(k) =>
                \A j \in (calls[k].idx + 1)..Len(roster) :
                    Called("prepare", j) /\ Called("send", j)

\* The per-employee outcomes a returned Result<Vec<()>, String> carries.
Outcomes(r) == IF r.tag = "Ok" THEN r.val ELSE <<>>

\* C2: for a roster of N employees fetched successfully, send_greetings
\* returns exactly N per-employee outcomes, whether the individual outcomes
\* are successes or failures.
C2_ReturnsOneOutcomePerEmployee ==
    (pc = "done" /\ repo.tag = "Ok") => Len(Outcomes(result)) = Len(repo.val)

\* C3: if get_employees returns an error, send_greetings returns a single
\* batch-level failure carrying that cause, produces no per-employee
\* outcomes and invokes neither prepare nor send for any employee.
C3_FetchFailureAbortsPass ==
    repo.tag = "Err" =>
        /\ CountCalls("prepare") = 0
        /\ CountCalls("send") = 0
        /\ acc = <<>>
        /\ pc # "idle" => (pc = "done" /\ result = Err(repo.err))

C3_Witness ==
    pc = "done" /\ repo.tag = "Err" /\ result = Err("repository unavailable")

\* The address variant a dispatcher serves.
OwnVariant(svc) == IF svc = "EmailService" THEN "Email" ELSE "Slack"

\* C4: if employee i has an address variant the configured dispatcher does
\* not serve, outcome i is a failure (NoApplicableChannel) and no send is
\* performed for that employee.
C4_UnservedAddressIsNotSent ==
    (pc = "done" /\ repo.tag = "Ok" /\ dispatcher = "SlackService") =>
        \A i \in 1..Len(roster) :
            roster[i].address.variant # OwnVariant(dispatcher) =>
                ~Called("send", i) /\ result.tag # "Ok"

\* C6: every pass calls get_employees exactly once, as its first call,
\* whatever the outcome of the fetch or of the sends, and never again once
\* prepare and send have started.
C6_FetchesExactlyOnce ==
    /\ pc = "idle" => calls = <<>>
    /\ pc # "idle" =>
          /\ CountCalls("get_employees") = 1
          /\ calls[1].op = "get_employees"

C6_Witness ==
    /\ pc = "done"
    /\ repo.tag = "Ok"
    /\ result.tag = "Err"
    /\ CountCalls("send") = 2
    /\ CountCalls("get_employees") = 1

\* The calls of a pass over n employees in which nothing fails.
ExpectedCalls(n) ==
    [k \in 1..(2 * n + 1) |->
        IF k = 1 THEN [op |-> "get_employees", idx |-> 0]
        ELSE IF k % 2 = 0 THEN [op |-> "prepare", idx |-> k \div 2]
        ELSE [op |-> "send", idx |-> (k - 1) \div 2]]

MadeCalls == [k \in DOMAIN calls |-> [op |-> calls[k].op, idx |-> calls[k].idx]]

\* C9: in a pass where the fetch succeeds and no prepare or send fails,
\* each employee is prepared exactly once and sent exactly once, employee
\* k's prepare precedes its send, and its send precedes employee k+1's
\* prepare: the calls are get_employees, prepare 1, send 1, prepare 2, ...
C9_DispatchInRosterOrder ==
    (repo.tag = "Ok" /\ NoDispatchFailed) =>
        /\ Len(calls) <= 2 * Len(repo.val) + 1
        /\ MadeCalls = SubSeq(ExpectedCalls(Len(repo.val)), 1, Len(calls))
        /\ pc = "done" => Len(calls) = 2 * Len(repo.val) + 1

C9_Witness ==
    /\ pc = "done"
    /\ repo.tag = "Ok"
    /\ Len(repo.val) = 3
    /\ NoDispatchFailed
    /\ result = Ok(<<Unit, Unit, Unit>>)

(***************************************************************************)
(* Properties of the dispatchers.                                          *)
(***************************************************************************)
IsSuccess(r) == r.tag \in {"Ok", "Some"}

\* C5: send called with an envelope whose address variant is not the
\* dispatcher's own channel fails (WrongChannel) instead of reporting
\* success.
C5_WrongChannelSendFails ==
    (/\ dcall.stage = "sent"
     /\ IsSuccess(dcall.msg)
     /\ dcall.msg.val.to.variant # OwnVariant(dcall.svc)) => ~IsSuccess(dcall.ret)

\* C10: SlackService::prepare and EmailService::prepare always succeed and
\* yield an Envelope whose 'to' is the employee's own address and whose
\* message has the fixed non-empty subject and body "Happy birthday"; the
\* employee record is left unchanged.
C10_PrepareBuildsGreeting ==
    [][dcall'.stage = "prepared" =>
          /\ IsSuccess(dcall'.msg)
          /\ dcall'.msg.val.to = dcall.employee.address
          /\ dcall'.msg.val.message.subject.inner = HappyBirthday
          /\ dcall'.msg.val.message.body.inner = HappyBirthday
          /\ Len(HappyBirthday) >= 1
          /\ dcall'.employee = dcall.employee]_vars

C10_Witness ==
    /\ dcall.stage = "prepared"
    /\ dcall.svc = "SlackService"
    /\ dcall.employee.address.variant = "Email"
    /\ dcall.msg.tag = "Ok"

(***************************************************************************)
(* Properties of the validated value constructors.                         *)
(***************************************************************************)
DayNumber(d) == d.year * 366 + d.ordinal

\* C7: BirthDate::new(d) returns a validation error for every d strictly
\* after the current date, and succeeds with a BirthDate wrapping d for
\* d = now and for every earlier date.
C7_BirthDateNotInFuture ==
    (vcall.stage = "returned" /\ vcall.fn = "BirthDate::new") =>
        IF DayNumber(vcall.arg) > DayNumber(vcall.now)
        THEN vcall.ret.tag = "Err"
        ELSE vcall.ret = Ok([inner |-> vcall.arg])

C7_Witness ==
    /\ vcall.stage = "returned"
    /\ vcall.fn = "BirthDate::new"
    /\ vcall.arg = vcall.now
    /\ vcall.ret.tag = "Ok"

\* C8: NonEmptyString::new(s) and Email::new(s) fail exactly when s has
\* length 0; for every s of length >= 1, whitespace-only included, they
\* succeed and the value stored is s unchanged.
C8_NonEmptyAcceptedUnchanged ==
    (vcall.stage = "returned" /\ vcall.fn \in {"NonEmptyString::new", "Email::new"}) =>
        IF Len(vcall.arg) = 0
        THEN vcall.ret.tag = "Err"
        ELSE vcall.ret = Ok([inner |-> vcall.arg])

C8_Witness ==
    /\ vcall.stage = "returned"
    /\ vcall.fn = "NonEmptyString::new"
    /\ vcall.arg = <<" ", " ">>
    /\ vcall.ret = Ok([inner |-> <<" ", " ">>])

=============================================================================
